---------------------------- MODULE Spec2Model ----------------------------
(***************************************************************************)
(* The lambda-calculus analysis and rewrite rules of src/src/lambda.rs:    *)
(* the class analysis (merge / make / modify with the constant evaluator   *)
(* eval), the rewrite rule set, and the capture-avoiding applier, run on   *)
(* an equivalence graph with interning, union-find and congruence closure. *)
(***************************************************************************)
EXTENDS Integers, Sequences, FiniteSets, TLC

VARIABLES
    to,               \* merge: the Data being merged into
    from,             \* merge: the Data last merged in
    ret,              \* merge: the last returned Option<Ordering>
    lookup,           \* make: the Data of each class a node may refer to
    enode,            \* make: the node last handed to make
    made,             \* make: the Data make returned for it
    overflow_checks,  \* whether i32 `+` panics on overflow (debug) or wraps
    egraph,           \* the equivalence graph
    program,          \* the seed program added to the graph
    start,            \* the class of the seed program's root
    keep_first,       \* whether a union keeps its first argument's root
    last              \* the rewrite last applied

vars ==
    <<to, from, ret, lookup, enode, made, overflow_checks,
      egraph, program, start, keep_first, last>>

----------------------------------------------------------------------------
(* Bounds and program constants *)

\* class ids 0..MaxId in the specifications of the pure functions
MaxId == 1

\* the most node insertions a run of the rewrite system makes
MaxNodes == 22

\* i32::MAX; i32::MIN is MinI32
MaxI32 == 2147483647

MinI32 == (-MaxI32) - 1

Ids == 0 .. MaxId

----------------------------------------------------------------------------
(* Term model: the Lambda enum *)

Enode(op, ch, num, sym, b) ==
    [op |-> op, ch |-> ch, num |-> num, sym |-> sym, b |-> b]

Bool(b) == Enode("Bool", <<>>, 0, "", b)

Num(n) == Enode("Num", <<>>, n, "", FALSE)

Var(v) == Enode("var", <<v>>, 0, "", FALSE)

Add(a, b) == Enode("+", <<a, b>>, 0, "", FALSE)

Eq(a, b) == Enode("=", <<a, b>>, 0, "", FALSE)

App(a, b) == Enode("app", <<a, b>>, 0, "", FALSE)

Lambda(v, a) == Enode("lam", <<v, a>>, 0, "", FALSE)

Let(v, a, b) == Enode("let", <<v, a, b>>, 0, "", FALSE)

Fix(v, a) == Enode("fix", <<v, a>>, 0, "", FALSE)

If(c, t, e) == Enode("if", <<c, t, e>>, 0, "", FALSE)

Symbol(s) == Enode("Symbol", <<>>, 0, s, FALSE)

\* Option<Lambda>::None
NoConst == Enode("None", <<>>, 0, "", FALSE)

\* the outcome of a `+` that panicked (overflow with overflow checks on)
Panic == Enode("panic", <<>>, 0, "", FALSE)

\* Lambda::num
num(c) == IF c.op = "Num" THEN [some |-> TRUE, n |-> c.num]
          ELSE [some |-> FALSE, n |-> 0]

\* struct Data
Data(free, constant) == [free |-> free, constant |-> constant]

----------------------------------------------------------------------------
(* i32 addition: exact when the sum fits, else wrapped or a panic *)

Overflows(a, b) ==
    \/ a > 0 /\ b > MaxI32 - a
    \/ a < 0 /\ b < MinI32 - a

WrappingAdd(a, b) ==
    IF a > 0 /\ b > MaxI32 - a THEN (a + MinI32) + (b + MinI32)
    ELSE IF a < 0 /\ b < MinI32 - a THEN (a - MinI32) + (b - MinI32)
    ELSE a + b

----------------------------------------------------------------------------
(* Class analysis *)

\* eval with the folding of Add and Eq left out
evalNoFold(d, n, checks) ==
    IF n.op \in {"Num", "Bool"} THEN n ELSE NoConst

\* eval, with d[i] the Data of class i; `checks` is the build's overflow mode
eval(d, n, checks) ==
    IF n.op \in {"Num", "Bool"} THEN n
    ELSE IF n.op = "+" THEN
        LET xa == d[n.ch[1]].constant
            xb == d[n.ch[2]].constant
        IN  IF xa = NoConst THEN NoConst
            ELSE IF ~num(xa).some THEN NoConst
            ELSE IF xb = NoConst THEN NoConst
            ELSE IF ~num(xb).some THEN NoConst
            ELSE IF Overflows(num(xa).n, num(xb).n) /\ checks THEN Panic
            ELSE Num(WrappingAdd(num(xa).n, num(xb).n))
    ELSE IF n.op = "=" THEN
        LET xa == d[n.ch[1]].constant
            xb == d[n.ch[2]].constant
        IN  IF xa = NoConst \/ xb = NoConst THEN NoConst
            ELSE Bool(xa = xb)
    ELSE NoConst

\* the union of the children's free sets (enode.for_each)
ChildrenFree(d, n) == UNION {d[n.ch[k]].free : k \in 1 .. Len(n.ch)}

\* make's free set with Let removing v after both children are added
makeFreeLetLate(d, n) ==
    IF n.op = "var" THEN {n.ch[1]}
    ELSE IF n.op = "let" THEN
        (d[n.ch[3]].free \cup d[n.ch[2]].free) \ {n.ch[1]}
    ELSE IF n.op \in {"lam", "fix"} THEN d[n.ch[2]].free \ {n.ch[1]}
    ELSE ChildrenFree(d, n)

\* make's free set, statement by statement
makeFree(d, n) ==
    IF n.op = "var" THEN {} \cup {n.ch[1]}
    ELSE IF n.op = "let" THEN
        LET f1 == {} \cup d[n.ch[3]].free
            f2 == f1 \ {n.ch[1]}
        IN  f2 \cup d[n.ch[2]].free
    ELSE IF n.op \in {"lam", "fix"} THEN
        LET f1 == {} \cup d[n.ch[2]].free
        IN  f1 \ {n.ch[1]}
    ELSE ChildrenFree(d, n)

make(d, n, checks) == Data(makeFree(d, n), eval(d, n, checks))

\* merge with the free sets united (the line the source comments out)
mergeUnion(t, f) ==
    LET free1 == t.free \cup f.free
        did_change == Cardinality(t.free) # Cardinality(free1)
    IN  IF t.constant = NoConst /\ f.constant # NoConst
        THEN [to |-> Data(free1, f.constant), ret |-> "None"]
        ELSE IF did_change THEN [to |-> Data(free1, t.constant), ret |-> "None"]
        ELSE [to |-> Data(free1, t.constant), ret |-> "Some(Greater)"]

\* merge with the incoming constant always taken
mergeTakeFrom(t, f) ==
    LET free1 == {i \in t.free : i \in f.free}
        did_change == Cardinality(t.free) # Cardinality(free1)
    IN  IF f.constant # NoConst
        THEN [to |-> Data(free1, f.constant), ret |-> "None"]
        ELSE IF did_change THEN [to |-> Data(free1, t.constant), ret |-> "None"]
        ELSE [to |-> Data(free1, t.constant), ret |-> "Some(Greater)"]

\* merge with did_change ignored
mergeQuiet(t, f) ==
    LET free1 == {i \in t.free : i \in f.free}
    IN  IF t.constant = NoConst /\ f.constant # NoConst
        THEN [to |-> Data(free1, f.constant), ret |-> "None"]
        ELSE [to |-> Data(free1, t.constant), ret |-> "Some(Greater)"]

\* merge: the updated `to` and the returned Option<Ordering>
merge(t, f) ==
    LET before_len == Cardinality(t.free)
        free1 == {i \in t.free : i \in f.free}
        did_change == before_len # Cardinality(free1)
    IN  IF t.constant = NoConst /\ f.constant # NoConst
        THEN [to |-> Data(free1, f.constant), ret |-> "None"]
        ELSE IF did_change THEN [to |-> Data(free1, t.constant), ret |-> "None"]
        ELSE [to |-> Data(free1, t.constant), ret |-> "Some(Greater)"]

----------------------------------------------------------------------------
(* The equivalence graph: interning, union-find, congruence closure.       *)
(* Class ids are allocated in order from 0; nodes[i] is the node whose     *)
(* insertion created id i, uf[i] the canonical id of i, data[c] the Data   *)
(* of canonical class c.                                                   *)

EmptyGraph == [n |-> 0, nodes |-> <<>>, uf |-> <<>>, data |-> <<>>]

GIds(g) == 0 .. (g.n - 1)

\* f extended by index n
Ext(f, n, v) == [i \in 0 .. n |-> IF i = n THEN v ELSE f[i]]

\* egraph.find
find(g, i) == g.uf[i]

\* a child list mapped through f
MapCh(ch, f) ==
    IF Len(ch) = 0 THEN <<>>
    ELSE IF Len(ch) = 1 THEN <<f[ch[1]]>>
    ELSE IF Len(ch) = 2 THEN <<f[ch[1]], f[ch[2]]>>
    ELSE <<f[ch[1]], f[ch[2]], f[ch[3]]>>

\* a node with its children made canonical
Canon(g, n) == [n EXCEPT !.ch = MapCh(n.ch, g.uf)]

\* egraph[i].data for every id i
ClassData(g) == [i \in GIds(g) |-> g.data[find(g, i)]]

\* the canonical ids
Roots(g) == {i \in GIds(g) : find(g, i) = i}

\* the nodes of class c, canonical
ClassNodes(g, c) == {Canon(g, g.nodes[i]) : i \in {j \in GIds(g) : find(g, j) = find(g, c)}}

\* the class holding node n, or -1
Lookup(g, n) ==
    LET c == Canon(g, n)
        S == {i \in GIds(g) : Canon(g, g.nodes[i]) = c}
    IN  IF S = {} THEN -1 ELSE find(g, CHOOSE i \in S : \A j \in S : i <= j)

\* Results that are used more than once are bound by a quantifier over a
\* one-element set, {body : x \in {e}}, and picked out of it: a bound
\* variable holds a value, where a LET name stands for its expression
Pick(S) == CHOOSE x \in S : TRUE

RECURSIVE add(_, _, _), union(_, _, _, _), modify(_, _, _)

\* modify with no effect
modifyNothing(g, id, kf) == g

\* modify: a class with a known constant is unioned with the literal
modify(g, id, kf) ==
    LET c == g.data[find(g, id)].constant
    IN  IF c \in {NoConst, Panic} THEN g
        ELSE Pick({union(r.g, id, r.id, kf) : r \in {add(g, c, kf)}})

\* egraph.add: intern the node, or make a class for it and run the hooks
add(g, n, kf) ==
    LET found == Lookup(g, n)
    IN  IF found # -1 THEN [g |-> g, id |-> found]
        ELSE Pick({[g |-> modify(g1, g.n, kf), id |-> g.n] :
                     g1 \in {[n |-> g.n + 1,
                              nodes |-> Ext(g.nodes, g.n, Canon(g, n)),
                              uf |-> Ext(g.uf, g.n, g.n),
                              data |-> Ext(g.data, g.n,
                                           make(ClassData(g), n, FALSE))]}})

\* egraph.union: merge the Data, then run modify on the surviving class;
\* kf says whether the first or the second argument's root survives
union(g, a, b, kf) ==
    LET ra == find(g, a)
        rb == find(g, b)
        t == IF kf THEN ra ELSE rb
        f == IF kf THEN rb ELSE ra
    IN  IF ra = rb THEN g
        ELSE Pick({modify(g1, t, kf) :
                     g1 \in {[g EXCEPT
                                !.uf = [i \in GIds(g) |->
                                          IF g.uf[i] = f THEN t ELSE g.uf[i]],
                                !.data[t] = merge(g.data[t], g.data[f]).to]}})

\* pairs of congruent nodes in different classes
Congruent(g) ==
    {p \in GIds(g) \X GIds(g) :
        /\ p[1] < p[2]
        /\ find(g, p[1]) # find(g, p[2])
        /\ Canon(g, g.nodes[p[1]]) = Canon(g, g.nodes[p[2]])}

\* the Data of node i's class after node i is made again and merged in
Remade(g, i) ==
    merge(g.data[find(g, i)], make(ClassData(g), Canon(g, g.nodes[i]), FALSE))

\* nodes whose re-made Data changes their class's Data
Stale(g) == {i \in GIds(g) : Remade(g, i).ret = "None"}

Min(S) == CHOOSE i \in S : \A j \in S : i <= j

\* the first pair of a set of pairs, in lexicographic order
FirstPair(S) ==
    CHOOSE p \in S : \A q \in S : p[1] < q[1] \/ (p[1] = q[1] /\ p[2] <= q[2])

RECURSIVE rebuild(_, _)

\* egraph.rebuild: congruence closure, then the analysis brought up to
\* date (make of each node merged into its class, modify on a change)
rebuild(g, kf) ==
    Pick({IF cg # {} THEN
              Pick({rebuild(g2, kf) :
                      g2 \in {union(g, FirstPair(cg)[1], FirstPair(cg)[2], kf)}})
          ELSE IF st # {} THEN
              Pick({rebuild(g2, kf) :
                      g2 \in {modify([g EXCEPT !.data[find(g, Min(st))] =
                                        Remade(g, Min(st)).to],
                                     find(g, Min(st)), kf)}})
          ELSE g :
          cg \in {Congruent(g)}, st \in {Stale(g)}})

\* egraph.add_expr: the nodes of a RecExpr added in order, children first;
\* ids[j] is the class of the expression's node j
RECURSIVE add_expr_from(_, _, _, _, _)

add_expr_from(g, expr, k, ids, kf) ==
    IF k >= Len(expr) THEN [g |-> g, id |-> ids[k - 1]]
    ELSE Pick({add_expr_from(r.g, expr, k + 1, Ext(ids, k, r.id), kf) :
                 r \in {add(g, [expr[k + 1] EXCEPT !.ch = MapCh(@, ids)], kf)}})

add_expr(g, expr, kf) == add_expr_from(g, expr, 0, <<>>, kf)

----------------------------------------------------------------------------
(* Patterns, substitutions, matching and instantiation *)

PVar(name) == [kind |-> "var", name |-> name, node |-> NoConst, args |-> <<>>]

PNode(node, args) == [kind |-> "node", name |-> "", node |-> node, args |-> args]

P0(node) == PNode(node, <<>>)

P2(op, a, b) == PNode(Enode(op, <<>>, 0, "", FALSE), <<a, b>>)

P3(op, a, b, c) == PNode(Enode(op, <<>>, 0, "", FALSE), <<a, b, c>>)

PVarOf(a) == PNode(Enode("var", <<>>, 0, "", FALSE), <<a>>)

\* the pattern variables of the rule set
PVars ==
    {"?then", "?else", "?x", "?e", "?a", "?b", "?c", "?v", "?body", "?cond",
     "?v1", "?v2", "?fresh"}

\* Subst: an unbound variable maps to -1
EmptySubst == [v \in PVars |-> -1]

RECURSIVE ematch(_, _, _, _), ematchArgs(_, _, _, _, _)

\* the substitutions extending s under which pattern p matches class c
ematch(g, p, c, s) ==
    IF p.kind = "var" THEN
        IF s[p.name] = -1 THEN {[s EXCEPT ![p.name] = c]}
        ELSE IF find(g, s[p.name]) = c THEN {s} ELSE {}
    ELSE UNION {ematchArgs(g, p.args, Canon(g, g.nodes[i]).ch, 1, s) :
                  i \in {j \in GIds(g) :
                            /\ find(g, j) = c
                            /\ [g.nodes[j] EXCEPT !.ch = <<>>] = p.node
                            /\ Len(g.nodes[j].ch) = Len(p.args)}}

ematchArgs(g, ps, ch, k, s) ==
    IF k > Len(ps) THEN {s}
    ELSE UNION {ematchArgs(g, ps, ch, k + 1, s2) :
                  s2 \in ematch(g, ps[k], ch[k], s)}

\* Searcher::search: every (eclass, subst) the pattern matches
search(g, p) ==
    UNION {{[eclass |-> c, subst |-> s] : s \in ematch(g, p, c, EmptySubst)} :
             c \in Roots(g)}

RECURSIVE instantiate(_, _, _, _)

\* Pattern::apply_one: the pattern's nodes added children first
instantiate(g, p, s, kf) ==
    IF p.kind = "var" THEN [g |-> g, id |-> s[p.name]]
    ELSE IF Len(p.args) = 0 THEN add(g, p.node, kf)
    ELSE IF Len(p.args) = 1 THEN
        Pick({add(r1.g, [p.node EXCEPT !.ch = <<r1.id>>], kf) :
                r1 \in {instantiate(g, p.args[1], s, kf)}})
    ELSE IF Len(p.args) = 2 THEN
        Pick(UNION {{add(r2.g, [p.node EXCEPT !.ch = <<r1.id, r2.id>>], kf) :
                       r2 \in {instantiate(r1.g, p.args[2], s, kf)}} :
                      r1 \in {instantiate(g, p.args[1], s, kf)}})
    ELSE
        Pick(UNION {UNION {{add(r3.g, [p.node EXCEPT !.ch = <<r1.id, r2.id, r3.id>>], kf) :
                              r3 \in {instantiate(r2.g, p.args[3], s, kf)}} :
                             r2 \in {instantiate(r1.g, p.args[2], s, kf)}} :
                      r1 \in {instantiate(g, p.args[1], s, kf)}})

----------------------------------------------------------------------------
(* The rewrite rules *)

Rule(name, lhs, rhs) ==
    [name |-> name, lhs |-> lhs, rhs |-> rhs, applier |-> "Pattern",
     cond |-> "none", cv1 |-> "", cv2 |-> "", cp1 |-> PVar(""), cp2 |-> PVar("")]

rule_if_true ==
    Rule("if-true", P3("if", P0(Bool(TRUE)), PVar("?then"), PVar("?else")),
         PVar("?then"))

rule_if_false ==
    Rule("if-false", P3("if", P0(Bool(FALSE)), PVar("?then"), PVar("?else")),
         PVar("?else"))

rule_if_elim ==
    [Rule("if-elim",
          P3("if", P2("=", PVarOf(PVar("?x")), PVar("?e")), PVar("?then"), PVar("?else")),
          PVar("?else"))
     EXCEPT !.cond = "ConditionEqual",
            !.cp1 = P3("let", PVar("?x"), PVar("?e"), PVar("?then")),
            !.cp2 = P3("let", PVar("?x"), PVar("?e"), PVar("?else"))]

rule_add_comm ==
    Rule("add-comm", P2("+", PVar("?a"), PVar("?b")), P2("+", PVar("?b"), PVar("?a")))

rule_add_assoc ==
    Rule("add-assoc", P2("+", P2("+", PVar("?a"), PVar("?b")), PVar("?c")),
         P2("+", PVar("?a"), P2("+", PVar("?b"), PVar("?c"))))

rule_eq_comm ==
    Rule("eq-comm", P2("=", PVar("?a"), PVar("?b")), P2("=", PVar("?b"), PVar("?a")))

rule_fix ==
    Rule("fix", P2("fix", PVar("?v"), PVar("?e")),
         P3("let", PVar("?v"), P2("fix", PVar("?v"), PVar("?e")), PVar("?e")))

rule_beta ==
    Rule("beta", P2("app", P2("lam", PVar("?v"), PVar("?body")), PVar("?e")),
         P3("let", PVar("?v"), PVar("?e"), PVar("?body")))

\* (let ?v ?e (op ?a ?b)) => (op (let ?v ?e ?a) (let ?v ?e ?b))
LetThrough(name, op) ==
    Rule(name, P3("let", PVar("?v"), PVar("?e"), P2(op, PVar("?a"), PVar("?b"))),
         P2(op, P3("let", PVar("?v"), PVar("?e"), PVar("?a")),
                P3("let", PVar("?v"), PVar("?e"), PVar("?b"))))

rule_let_app == LetThrough("let-app", "app")

rule_let_add == LetThrough("let-add", "+")

rule_let_eq == LetThrough("let-eq", "=")

rule_let_const ==
    [Rule("let-const", P3("let", PVar("?v"), PVar("?e"), PVar("?c")), PVar("?c"))
     EXCEPT !.cond = "is_const", !.cv1 = "?c"]

rule_let_if ==
    Rule("let-if",
         P3("let", PVar("?v"), PVar("?e"),
            P3("if", PVar("?cond"), PVar("?then"), PVar("?else"))),
         P3("if", P3("let", PVar("?v"), PVar("?e"), PVar("?cond")),
                  P3("let", PVar("?v"), PVar("?e"), PVar("?then")),
                  P3("let", PVar("?v"), PVar("?e"), PVar("?else"))))

rule_let_var_same ==
    Rule("let-var-same", P3("let", PVar("?v1"), PVar("?e"), PVarOf(PVar("?v1"))),
         PVar("?e"))

rule_let_var_diff ==
    [Rule("let-var-diff", P3("let", PVar("?v1"), PVar("?e"), PVarOf(PVar("?v2"))),
          PVarOf(PVar("?v2")))
     EXCEPT !.cond = "is_not_same_var", !.cv1 = "?v1", !.cv2 = "?v2"]

rule_let_lam_same ==
    Rule("let-lam-same",
         P3("let", PVar("?v1"), PVar("?e"), P2("lam", PVar("?v1"), PVar("?body"))),
         P2("lam", PVar("?v1"), PVar("?body")))

\* CaptureAvoid.if_not_free
if_not_free ==
    P2("lam", PVar("?v2"), P3("let", PVar("?v1"), PVar("?e"), PVar("?body")))

\* CaptureAvoid.if_free
if_free ==
    P2("lam", PVar("?fresh"),
       P3("let", PVar("?v1"), PVar("?e"),
          P3("let", PVar("?v2"), PVarOf(PVar("?fresh")), PVar("?body"))))

rule_let_lam_diff ==
    [Rule("let-lam-diff",
          P3("let", PVar("?v1"), PVar("?e"), P2("lam", PVar("?v2"), PVar("?body"))),
          PVar(""))
     EXCEPT !.applier = "CaptureAvoid",
            !.cond = "is_not_same_var", !.cv1 = "?v1", !.cv2 = "?v2"]

rules ==
    <<rule_if_true, rule_if_false, rule_if_elim, rule_add_comm, rule_add_assoc,
      rule_eq_comm, rule_fix, rule_beta, rule_let_app, rule_let_add, rule_let_eq,
      rule_let_const, rule_let_if, rule_let_var_same, rule_let_var_diff,
      rule_let_lam_same, rule_let_lam_diff>>

----------------------------------------------------------------------------
(* Conditions and appliers *)

\* the name of the symbol CaptureAvoid mints for class `eclass`
fresh_name(eclass) == "_" \o ToString(eclass)

\* the renaming branch never taken
v2_free_never(g, s) == FALSE

\* whether CaptureAvoid takes the renaming branch
v2_free_in_e(g, s) == s["?v2"] \in ClassData(g)[s["?e"]].free

\* CaptureAvoid::apply_one; `sym` is the symbol minted, "" when none is
CaptureAvoid_apply_one(g, eclass, s, kf) ==
    IF v2_free_in_e(g, s) THEN
        Pick(UNION {{[g |-> r.g, id |-> r.id, sym |-> fresh_name(eclass)] :
                       r \in {instantiate(a.g, if_free,
                                          [s EXCEPT !["?fresh"] = a.id], kf)}} :
                      a \in {add(g, Symbol(fresh_name(eclass)), kf)}})
    ELSE
        Pick({[g |-> r.g, id |-> r.id, sym |-> ""] :
                r \in {instantiate(g, if_not_free, s, kf)}})

\* the applier of rule r run on one match
apply_one(g, r, eclass, s, kf) ==
    IF r.applier = "CaptureAvoid" THEN CaptureAvoid_apply_one(g, eclass, s, kf)
    ELSE Pick({[g |-> i.g, id |-> i.id, sym |-> ""] :
                 i \in {instantiate(g, r.rhs, s, kf)}})

\* the conditions of let-const and of let-var-diff, let-lam-diff
is_const(g, s, v) == ClassData(g)[s[v]].constant # NoConst

is_not_same_var(g, s, v1, v2) == find(g, s[v1]) # find(g, s[v2])

\* ConditionEqual::check: both patterns instantiated in the graph; the
\* graph they leave and whether the two land in one class
ConditionEqual(g, p1, p2, s, kf) ==
    Pick(UNION {{[g |-> c2.g, ok |-> find(c2.g, c1.id) = find(c2.g, c2.id)] :
                   c2 \in {instantiate(c1.g, p2, s, kf)}} :
                  c1 \in {instantiate(g, p1, s, kf)}})

\* the condition of rule r checked on match m: the graph it leaves and
\* whether it holds
check(g, r, m, kf) ==
    IF r.cond = "is_const" THEN [g |-> g, ok |-> is_const(g, m.subst, r.cv1)]
    ELSE IF r.cond = "is_not_same_var"
         THEN [g |-> g, ok |-> is_not_same_var(g, m.subst, r.cv1, r.cv2)]
    ELSE IF r.cond = "ConditionEqual"
         THEN ConditionEqual(g, r.cp1, r.cp2, m.subst, kf)
    ELSE [g |-> g, ok |-> TRUE]

\* one match of rule r rewritten: the condition is checked, the applier's
\* result is unioned with the matched class, and the graph is rebuilt
rewrite(g, r, m, kf) ==
    Pick({IF c.ok THEN
              Pick(UNION {{[g |-> rebuild(u, kf), fired |-> TRUE, sym |-> a.sym] :
                             u \in {union(a.g, a.id, m.eclass, kf)}} :
                            a \in {apply_one(c.g, r, m.eclass, m.subst, kf)}})
          ELSE [g |-> rebuild(c.g, kf), fired |-> FALSE, sym |-> ""] :
          c \in {check(g, r, m, kf)}})

----------------------------------------------------------------------------
(* Inputs of the pure-function specifications *)

\* literal constants a class may carry, the i32 extremes among them
Literals ==
    {Num(MinI32), Num(-1), Num(1), Num(MaxI32), Bool(TRUE), Bool(FALSE)}

\* any Data: what merge may be handed
AnyData == {Data(s, c) : s \in SUBSET Ids, c \in Literals \cup {NoConst}}

\* Data of a class of the graph: modify has unioned a class that has a
\* constant with the literal's class, whose free set is empty
ClassDataSet ==
    {Data(s, NoConst) : s \in SUBSET Ids} \cup {Data({}, c) : c \in Literals}

\* every node over the classes Ids
Enodes ==
    {Bool(TRUE), Bool(FALSE), Num(1), Num(MaxI32), Symbol("x")}
    \cup {Var(v) : v \in Ids}
    \cup {Enode(op, <<a, b>>, 0, "", FALSE) :
            op \in {"+", "=", "app", "lam", "fix"}, a \in Ids, b \in Ids}
    \cup {Enode(op, <<a, b, c>>, 0, "", FALSE) :
            op \in {"let", "if"}, a \in Ids, b \in Ids, c \in Ids}

----------------------------------------------------------------------------
(* Specification of merge: any sequence of merges into one class's Data *)

NoRewrite == [rule |-> "", eclass |-> -1, fired |-> FALSE, fresh |-> ""]

NoProgram == [name |-> "", expr |-> <<>>, x |-> "", y |-> ""]

NoGraph ==
    /\ egraph = EmptyGraph
    /\ program = NoProgram
    /\ start = -1
    /\ keep_first = TRUE
    /\ last = NoRewrite

NoMerge ==
    /\ to = Data({}, NoConst)
    /\ from = Data({}, NoConst)
    /\ ret = "none yet"

NoMake ==
    /\ lookup = <<>>
    /\ enode = NoConst
    /\ made = Data({}, NoConst)
    /\ overflow_checks = FALSE

MergeInit ==
    /\ to \in AnyData
    /\ from = Data({}, NoConst)
    /\ ret = "none yet"
    /\ NoMake
    /\ NoGraph

Merge ==
    \E f \in AnyData :
        /\ to' = merge(to, f).to
        /\ ret' = merge(to, f).ret
        /\ from' = f
        /\ UNCHANGED <<lookup, enode, made, overflow_checks>>
        /\ UNCHANGED <<egraph, program, start, keep_first, last>>

SpecMerge == MergeInit /\ [][Merge]_vars

----------------------------------------------------------------------------
(* Specification of make: a node made over any classes' Data *)

MakeInit ==
    /\ lookup \in [Ids -> ClassDataSet]
    /\ overflow_checks \in BOOLEAN
    /\ enode = NoConst
    /\ made = Data({}, NoConst)
    /\ NoMerge
    /\ NoGraph

Make ==
    \E n \in Enodes :
        /\ enode = NoConst
        /\ enode' = n
        /\ made' = make(lookup, n, overflow_checks)
        /\ UNCHANGED <<lookup, overflow_checks, to, from, ret>>
        /\ UNCHANGED <<egraph, program, start, keep_first, last>>

SpecMake == MakeInit /\ [][Make]_vars

----------------------------------------------------------------------------
(* Specification of the rewrite system: a seed program is added to an     *)
(* empty graph and the rules are applied, one match at a time, until none *)
(* changes the graph                                                       *)

\* identifiers a program may use for its variables
Identifiers == {"x", "y", "_5"}

Program(name, expr, x, y) == [name |-> name, expr |-> expr, x |-> x, y |-> y]

\* (let x (var y) (lam y (var x)))
CaptureProgram(x, y) ==
    Program("capture",
            <<Symbol(x), Symbol(y), Var(1), Symbol(y), Symbol(x), Var(4),
              Lambda(3, 5), Let(0, 2, 6)>>, x, y)

\* (app (lam x (+ (var x) 1)) 2)
BetaProgram ==
    Program("beta",
            <<Symbol("x"), Symbol("x"), Var(1), Num(1), Add(2, 3), Lambda(0, 4),
              Num(2), App(5, 6)>>, "x", "")

\* (let x 1 (lam y (var x)))
NotFreeProgram ==
    Program("not-free",
            <<Symbol("x"), Num(1), Symbol("y"), Symbol("x"), Var(3), Lambda(2, 4),
              Let(0, 1, 5)>>, "x", "y")

\* (let x 1 (lam x (var x)))
ShadowProgram ==
    Program("shadow",
            <<Symbol("x"), Num(1), Symbol("x"), Symbol("x"), Var(3), Lambda(2, 4),
              Let(0, 1, 5)>>, "x", "x")

\* (let x 1 (= (var x) 1))
LetEqProgram ==
    Program("let-eq",
            <<Symbol("x"), Num(1), Symbol("x"), Var(2), Num(1), Eq(3, 4),
              Let(0, 1, 5)>>, "x", "")

\* (let x 1 (if true (var x) 2))
LetIfProgram ==
    Program("let-if",
            <<Symbol("x"), Num(1), Bool(TRUE), Symbol("x"), Var(3), Num(2),
              If(2, 4, 5), Let(0, 1, 6)>>, "x", "")

\* (if (= (var x) 1) (var x) 1)
IfElimProgram ==
    Program("if-elim",
            <<Symbol("x"), Var(0), Num(1), Eq(1, 2), Symbol("x"), Var(4), Num(1),
              If(3, 5, 6)>>, "x", "")

\* (if (= 1 2) 1 2)
IfFalseProgram ==
    Program("if-false",
            <<Num(1), Num(2), Eq(0, 1), Num(1), Num(2), If(2, 3, 4)>>, "", "")

\* (fix f 1)
FixProgram == Program("fix", <<Symbol("f"), Num(1), Fix(0, 1)>>, "f", "")

\* (let x 1 (app (var x) (var x)))
LetAppProgram ==
    Program("let-app",
            <<Symbol("x"), Num(1), Symbol("x"), Var(2), Symbol("x"), Var(4),
              App(3, 5), Let(0, 1, 6)>>, "x", "")

\* (+ (+ 1 1) 1)
AssocProgram ==
    Program("assoc", <<Num(1), Num(1), Add(0, 1), Num(1), Add(2, 3)>>, "", "")

Programs ==
    {CaptureProgram(p[1], p[2]) :
        p \in {q \in Identifiers \X Identifiers : q[1] # q[2]}}
    \cup {BetaProgram, NotFreeProgram, ShadowProgram, LetEqProgram, LetIfProgram, IfElimProgram,
          IfFalseProgram, FixProgram, LetAppProgram, AssocProgram}

GraphInit ==
    /\ program \in Programs
    /\ keep_first \in BOOLEAN
    /\ LET r == add_expr(EmptyGraph, program.expr, keep_first)
       IN  /\ egraph = rebuild(r.g, keep_first)
           /\ start = r.id
    /\ last = NoRewrite
    /\ NoMerge
    /\ NoMake

\* what rewriting one match of one rule makes of graph g, for every match
\* of every rule that changes the graph
Changes(g, kf) ==
    UNION {UNION {{[g |-> r.g,
                    last |-> [rule |-> rules[k].name, eclass |-> m.eclass,
                              fired |-> r.fired, fresh |-> r.sym]] :
                     r \in {rr \in {rewrite(g, rules[k], m, kf)} : rr.g # g}} :
                    m \in search(g, rules[k].lhs)} :
             k \in 1 .. Len(rules)}

\* the runner stops at saturation: no match of any rule changes the graph
Saturated(g, kf) == Changes(g, kf) = {}

\* the changes that keep the graph within MaxNodes insertions
Rewrites(g, kf) == {r \in Changes(g, kf) : r.g.n <= MaxNodes}

\* one match of one rule rewritten, when that changes the graph
Rewrite ==
    \E r \in Rewrites(egraph, keep_first) :
        /\ egraph' = r.g
        /\ last' = r.last
        /\ UNCHANGED <<program, start, keep_first>>
        /\ UNCHANGED <<to, from, ret, lookup, enode, made, overflow_checks>>

SpecGraph == GraphInit /\ [][Rewrite]_vars

\* the rewrite system run on (app (lam x (+ (var x) 1)) 2) alone; the runner
\* keeps applying rules while one changes the graph
BetaInit == GraphInit /\ program = BetaProgram

FairSpecBeta == BetaInit /\ [][Rewrite]_vars /\ WF_vars(Rewrite)

----------------------------------------------------------------------------
(* Properties of merge *)

\* C3: constants are sticky. Over any sequence of merges into a class's
\* Data, a constant that is present stays the same value whatever the
\* merged-in Data carries, and the constant changes only by adopting the
\* incoming one when the class had none.
C3_ConstantsSticky ==
    [][/\ to.constant # NoConst => to'.constant = to.constant
       /\ to'.constant # to.constant =>
              to.constant = NoConst /\ to'.constant = from'.constant]_vars

\* a merge has handed a class that has a constant a different constant
C3_Witness ==
    /\ ret # "none yet"
    /\ to.constant # NoConst
    /\ from.constant # NoConst
    /\ from.constant # to.constant

\* C4: after a merge the free set of `to` is exactly the intersection of
\* its prior free set and the free set merged in, so it never grows.
C4_FreeIntersection ==
    [][/\ to'.free = to.free \cap from'.free
       /\ to'.free \subseteq to.free]_vars

\* a merge whose incoming free set had an element `to` lacks, and which
\* took an element away from `to`
C4_Witness ==
    /\ ret = "None"
    /\ from.constant = NoConst
    /\ from.free \ to.free # {}

\* C10: merge returns Some(Greater) exactly when `to` lost no free variable
\* and adopted no constant, and None otherwise; merging a Data into itself
\* leaves it unchanged and returns Some(Greater).
C10_ReportExact ==
    [][/\ ret' \in {"None", "Some(Greater)"}
       /\ ret' = "Some(Greater)" <=>
              /\ to'.free = to.free
              /\ ~(to.constant = NoConst /\ to'.constant # NoConst)
       /\ from' = to => to' = to /\ ret' = "Some(Greater)"]_vars

\* a merge that only shrank the free set was reported as a change
C10_Witness ==
    /\ ret = "None"
    /\ to.constant = NoConst
    /\ from.free # {}
    /\ to.free \subseteq from.free

----------------------------------------------------------------------------
(* Properties of make *)

\* the free set of class i that make reads
free(i) == lookup[i].free

\* C5: make gives Var(v) the free set {v}; Let(v, a, b) the set
\* (free(b) \ {v}) \cup free(a); Lambda(v, a) and Fix(v, a) the set
\* free(a) \ {v}; any other node the union of its children's free sets.
\* So Lambda(x, Var(x)) has no free variable, Lambda(x, Var(y)) has {y} and
\* Let(x, Var(y), Var(x)) has {y}.
C5_MakeFree ==
    /\ enode.op = "var" => made.free = {enode.ch[1]}
    /\ enode.op = "let" =>
           made.free = (free(enode.ch[3]) \ {enode.ch[1]}) \cup free(enode.ch[2])
    /\ enode.op \in {"lam", "fix"} =>
           made.free = free(enode.ch[2]) \ {enode.ch[1]}
    /\ enode.op \in {"+", "=", "app", "if"} =>
           made.free = UNION {free(enode.ch[k]) : k \in 1 .. Len(enode.ch)}
    /\ enode.op \in {"Num", "Bool", "Symbol"} => made.free = {}
    /\ \A x \in Ids : \A y \in Ids \ {x} :
           /\ (enode.op = "lam" /\ enode.ch[1] = x /\ free(enode.ch[2]) = {x})
                  => made.free = {}
           /\ (enode.op = "lam" /\ enode.ch[1] = x /\ free(enode.ch[2]) = {y})
                  => made.free = {y}
           /\ (enode.op = "let" /\ enode.ch[1] = x
                  /\ free(enode.ch[2]) = {y} /\ free(enode.ch[3]) = {x})
                  => made.free = {y}

\* make has made a Let whose variable is free in both children, and kept it
C5_Witness ==
    /\ enode.op = "let"
    /\ enode.ch[1] \in free(enode.ch[2])
    /\ enode.ch[1] \in free(enode.ch[3])
    /\ enode.ch[1] \in made.free

\* C6: the constant make folds for Add of two integer literals is the
\* literal of their exact sum, and for Eq of two constants it is
\* Bool(TRUE) exactly when the two are the same value. A sum outside the
\* 32-bit range is the value of no literal.
C6_ConstantSound ==
    /\ /\ enode.op = "+"
       /\ num(lookup[enode.ch[1]].constant).some
       /\ num(lookup[enode.ch[2]].constant).some
       => LET a == num(lookup[enode.ch[1]].constant).n
              b == num(lookup[enode.ch[2]].constant).n
          IN  IF Overflows(a, b) THEN FALSE ELSE made.constant = Num(a + b)
    /\ /\ enode.op = "="
       /\ lookup[enode.ch[1]].constant # NoConst
       /\ lookup[enode.ch[2]].constant # NoConst
       => made.constant =
              Bool(lookup[enode.ch[1]].constant = lookup[enode.ch[2]].constant)

----------------------------------------------------------------------------
(* Properties of the rewrite system *)

\* whether class c of graph g holds node n
InClass(g, n, c) == Canon(g, n) \in ClassNodes(g, c)

RECURSIVE lookup_pat(_, _, _)

\* the class of graph g that holds pattern p under substitution s, or -1;
\* nothing is added to the graph
lookup_pat(g, p, s) ==
    IF p.kind = "var" THEN (IF s[p.name] = -1 THEN -1 ELSE find(g, s[p.name]))
    ELSE LET ids == [k \in 1 .. Len(p.args) |-> lookup_pat(g, p.args[k], s)]
         IN  IF \E k \in 1 .. Len(p.args) : ids[k] = -1 THEN -1
             ELSE Lookup(g, [p.node EXCEPT !.ch = ids])

\* the Symbol nodes of graph g, of the seed program
Symbols(g) == {g.nodes[i] : i \in {j \in GIds(g) : g.nodes[j].op = "Symbol"}}

SeedSymbols ==
    {program.expr[k] : k \in {j \in 1 .. Len(program.expr) :
                                 program.expr[j].op = "Symbol"}}

\* (lam f (var y))
LamVar(f, y) == P2("lam", P0(Symbol(f)), PVarOf(P0(Symbol(y))))

\* the seed's class is the class of (lam y (var y))
Captured ==
    lookup_pat(egraph, LamVar(program.y, program.y), EmptySubst) = find(egraph, start)

\* the seed's class holds (lam f (var y)) for a symbol f other than x and y
Renamed ==
    \E f \in Symbols(egraph) :
        /\ f.sym \notin {program.x, program.y}
        /\ lookup_pat(egraph, LamVar(f.sym, program.y), EmptySubst)
               = find(egraph, start)

\* C1: from the seed (let x (var y) (lam y (var x))), x and y distinct,
\* the seed's class is never the class of (lam y (var y)), and once no rule
\* changes the graph it holds (lam f (var y)) for a symbol f other than x
\* and y.
C1_CaptureAvoided ==
    program.name = "capture" =>
        /\ ~Captured
        /\ Saturated(egraph, keep_first) => Renamed

\* the same, for the seeds whose identifiers are x and y themselves
CaptureAvoidedPlain ==
    program.name = "capture" /\ {program.x, program.y} = {"x", "y"} =>
        /\ ~Captured
        /\ Saturated(egraph, keep_first) => Renamed

\* let-lam-diff has renamed in a plain seed, and the graph is saturated
CaptureAvoidedPlainReached ==
    /\ program.name = "capture" /\ {program.x, program.y} = {"x", "y"}
    /\ Saturated(egraph, keep_first)
    /\ Renamed

\* C2: for every match of (let ?v1 ?e (lam ?v2 ?body)), let-lam-diff does
\* nothing when ?v1 and ?v2 are one class; otherwise it puts exactly one
\* term in the matched class: (lam ?v2 (let ?v1 ?e ?body)), with no symbol
\* minted, when ?v2 is not in the free set of ?e's class, and
\* (lam fresh (let ?v1 ?e (let ?v2 (var fresh) ?body))) when it is.
C2_LetLamDiff ==
    \A m \in search(egraph, rule_let_lam_diff.lhs) :
        LET s == m.subst
            r == rewrite(egraph, rule_let_lam_diff, m, keep_first)
            fresh == Lookup(r.g, Symbol(fresh_name(m.eclass)))
            sf == [s EXCEPT !["?fresh"] = fresh]
        IN  IF find(egraph, s["?v1"]) = find(egraph, s["?v2"])
            THEN ~r.fired /\ r.g = egraph
            ELSE IF s["?v2"] \notin ClassData(egraph)[s["?e"]].free
            THEN /\ r.fired
                 /\ r.sym = ""
                 /\ Symbols(r.g) = Symbols(egraph)
                 /\ lookup_pat(r.g, if_not_free, s) = find(r.g, m.eclass)
            ELSE /\ r.fired
                 /\ r.sym = fresh_name(m.eclass)
                 /\ fresh # -1
                 /\ lookup_pat(r.g, if_free, sf) = find(r.g, m.eclass)
                 /\ lookup_pat(r.g, if_not_free, s) = find(r.g, m.eclass)
                        => lookup_pat(egraph, if_not_free, s) = find(egraph, m.eclass)

\* let-lam-diff has taken the renaming branch
C2_Witness ==
    /\ last.rule = "let-lam-diff"
    /\ last.fired
    /\ last.fresh # ""
    /\ Symbol(last.fresh) \in Symbols(egraph)

\* let-lam-diff has taken the branch that does not rename
LetLamDiffNotFree ==
    /\ last.rule = "let-lam-diff"
    /\ last.fired
    /\ last.fresh = ""

\* let-lam-diff is matched with ?v1 and ?v2 one class
LetLamDiffSameVar ==
    \E m \in search(egraph, rule_let_lam_diff.lhs) :
        find(egraph, m.subst["?v1"]) = find(egraph, m.subst["?v2"])

\* C7: in every graph the rewrite system reaches, a class whose constant is
\* known holds the literal node of that constant; and modify run on a class
\* leaves the graph as it is when the class has no constant, and leaves the
\* literal in the class when it has one.
C7_ConstantInClass ==
    \A c \in Roots(egraph) :
        LET k == egraph.data[c].constant
            g2 == modify(egraph, c, keep_first)
        IN  IF k = NoConst THEN g2 = egraph
            ELSE InClass(egraph, k, c) /\ InClass(g2, k, c)

\* a rewrite has left a class whose constant was folded from an Add, with
\* the literal beside the Add
C7_Witness ==
    /\ last.fired
    /\ \E c \in Roots(egraph) :
           /\ egraph.data[c].constant.op = "Num"
           /\ InClass(egraph, egraph.data[c].constant, c)
           /\ \E n \in ClassNodes(egraph, c) : n.op = "+"

\* C8: the symbol CaptureAvoid mints is none of the seed program's symbols.
C8_FreshIsFresh ==
    last.fresh # "" => Symbol(last.fresh) \notin SeedSymbols

\* the seed's class holds the literal 3
BetaFolded == InClass(egraph, Num(3), start)

\* C9: from the seed (app (lam x (+ (var x) 1)) 2), applying the rules
\* until none changes the graph eventually puts the literal 3 in the seed's
\* class.
C9_BetaReachesThree == <>BetaFolded

\* rewrites have put 3 in the class of the beta seed
C9_Witness ==
    /\ program = BetaProgram
    /\ last.fired
    /\ BetaFolded

=============================================================================
